---- MODULE Spec2Model ----
(***************************************************************************)
(* Model of src/src/config.rs of ci-probe: Credentials::load/from_string,  *)
(* VersionCompare::version_eq and Config (load, normalize_task_names,      *)
(* get_valid_states, get_all_tasks, is_valid_version).                     *)
(*                                                                         *)
(* Strings whose characters matter (version strings, task names,           *)
(* credential strings) are sequences of one-character strings.             *)
(* Version::parse and Version's == are those of the semver crate, 1.x      *)
(* line: strict major.minor.patch[-pre][+build] grammar, u64 numeric       *)
(* components, and a derived PartialEq over all five fields.               *)
(***************************************************************************)
EXTENDS Integers, Sequences, FiniteSets, TLC

VARIABLES
    \* version_eq: the two strings, the position of the caller, and the
    \* results of version_eq(self, other) and version_eq(other, self)
    self, other, vpc, r_so, r_os,
    \* Config: the configuration file, the loaded Config, the position of
    \* the caller, the last call made on the Config and what it returned
    file, config, cpc, call, ret,
    \* Credentials: the CLI argument, the process environment, the .env
    \* file, the position of the caller and the result of Credentials::load
    cli_credentials, env, dotfile, kpc, credentials

vvars == <<self, other, vpc, r_so, r_os>>
cvars == <<file, config, cpc, call, ret>>
kvars == <<cli_credentials, env, dotfile, kpc, credentials>>
vars == <<vvars, cvars, kvars>>

\* Option<T>
None == [some |-> FALSE, val |-> <<>>]
Some(v) == [some |-> TRUE, val |-> v]

(***************************************************************************)
(* Characters                                                              *)
(***************************************************************************)
Digits == {"0", "1", "2", "3", "4", "5", "6", "7", "8", "9"}

LowerLetters ==
    {"a", "b", "c", "d", "e", "f", "g", "h", "i", "j", "k", "l", "m",
     "n", "o", "p", "q", "r", "s", "t", "u", "v", "w", "x", "y", "z"}

UpperLetters ==
    {"A", "B", "C", "D", "E", "F", "G", "H", "I", "J", "K", "L", "M",
     "N", "O", "P", "Q", "R", "S", "T", "U", "V", "W", "X", "Y", "Z"}

is_ascii_digit(c) == c \in Digits

LowerSeq ==
    <<"a", "b", "c", "d", "e", "f", "g", "h", "i", "j", "k", "l", "m",
      "n", "o", "p", "q", "r", "s", "t", "u", "v", "w", "x", "y", "z">>

UpperSeq ==
    <<"A", "B", "C", "D", "E", "F", "G", "H", "I", "J", "K", "L", "M",
      "N", "O", "P", "Q", "R", "S", "T", "U", "V", "W", "X", "Y", "Z">>

\* char::to_lowercase on the ASCII range
LowerChar(c) ==
    IF c \in UpperLetters
    THEN LowerSeq[CHOOSE i \in 1..Len(UpperSeq) : UpperSeq[i] = c]
    ELSE c

\* str::to_lowercase
to_lowercase(s) == [i \in 1..Len(s) |-> LowerChar(s[i])]

DigitVal ==
    ("0" :> 0) @@ ("1" :> 1) @@ ("2" :> 2) @@ ("3" :> 3) @@ ("4" :> 4) @@
    ("5" :> 5) @@ ("6" :> 6) @@ ("7" :> 7) @@ ("8" :> 8) @@ ("9" :> 9)

\* number of occurrences of character c in s: v.matches(c).count()
RECURSIVE matches_count(_, _)
matches_count(s, c) ==
    IF s = <<>> THEN 0
    ELSE (IF Head(s) = c THEN 1 ELSE 0) + matches_count(Tail(s), c)

RECURSIVE FirstIndex(_, _, _)
\* least index >= i of character c in s, or 0
FirstIndex(s, c, i) ==
    IF i > Len(s) THEN 0
    ELSE IF s[i] = c THEN i
    ELSE FirstIndex(s, c, i + 1)

RECURSIVE split(_, _)
\* str::split(c): the parts of s between the occurrences of c
split(s, c) ==
    LET i == FirstIndex(s, c, 1)
    IN  IF i = 0 THEN <<s>>
        ELSE <<SubSeq(s, 1, i - 1)>> \o split(SubSeq(s, i + 1, Len(s)), c)

(***************************************************************************)
(* semver::Version::parse                                                  *)
(***************************************************************************)
\* u64::MAX as decimal digits; a numeric component above it is an overflow
U64MaxDigits ==
    <<"1", "8", "4", "4", "6", "7", "4", "4", "0", "7",
      "3", "7", "0", "9", "5", "5", "1", "6", "1", "5">>

RECURSIVE DigitsGreater(_, _)
\* d1 > d2 for two digit strings of the same length
DigitsGreater(d1, d2) ==
    IF d1 = <<>> THEN FALSE
    ELSE IF DigitVal[Head(d1)] # DigitVal[Head(d2)]
         THEN DigitVal[Head(d1)] > DigitVal[Head(d2)]
         ELSE DigitsGreater(Tail(d1), Tail(d2))

\* checked_mul / checked_add on u64 fail exactly when the value exceeds u64::MAX
Overflows(digits) ==
    \/ Len(digits) > Len(U64MaxDigits)
    \/ Len(digits) = Len(U64MaxDigits) /\ DigitsGreater(digits, U64MaxDigits)

RECURSIVE DigitRunEnd(_, _)
\* index just after the run of ASCII digits of s that starts at i
DigitRunEnd(s, i) ==
    IF i <= Len(s) /\ is_ascii_digit(s[i]) THEN DigitRunEnd(s, i + 1) ELSE i

\* a numeric component: non-empty, no leading zero, within u64.  A u64
\* without leading zeros is represented by its digit string.
numeric_identifier(s, i) ==
    LET j == DigitRunEnd(s, i)
        d == SubSeq(s, i, j - 1)
    IN  IF j = i THEN [ok |-> FALSE, val |-> <<>>, next |-> i]
        ELSE IF Len(d) > 1 /\ d[1] = "0" THEN [ok |-> FALSE, val |-> <<>>, next |-> i]
        ELSE IF Overflows(d) THEN [ok |-> FALSE, val |-> <<>>, next |-> i]
        ELSE [ok |-> TRUE, val |-> d, next |-> j]

RECURSIVE IdentScan(_, _, _, _, _, _)
\* scan a dot-separated identifier of s starting at i; k is the cursor,
\* seg the start of the current segment, nondigit whether the segment holds
\* a letter or hyphen.  ok with end = i is the empty identifier.
IdentScan(s, i, k, seg, nondigit, pos) ==
    IF k <= Len(s) /\ (s[k] \in LowerLetters \cup UpperLetters \/ s[k] = "-")
    THEN IdentScan(s, i, k + 1, seg, TRUE, pos)
    ELSE IF k <= Len(s) /\ is_ascii_digit(s[k])
    THEN IdentScan(s, i, k + 1, seg, nondigit, pos)
    ELSE LET atDot == k <= Len(s) /\ s[k] = "."
         IN  IF k = seg
             THEN IF k = i /\ ~atDot
                  THEN [ok |-> TRUE, end |-> i]
                  ELSE [ok |-> FALSE, end |-> i]
             ELSE IF pos = "pre" /\ k - seg > 1 /\ ~nondigit /\ s[seg] = "0"
             THEN [ok |-> FALSE, end |-> i]
             ELSE IF atDot
             THEN IdentScan(s, i, k + 1, k + 1, FALSE, pos)
             ELSE [ok |-> TRUE, end |-> k]

identifier(s, i, pos) == IdentScan(s, i, i, i, FALSE, pos)

ParseError == [ok |-> FALSE, major |-> <<>>, minor |-> <<>>, patch |-> <<>>,
               pre |-> <<>>, build |-> <<>>]

\* the part of a version after major.minor.patch, starting at index p
ParseTail(text, major, minor, patch, p) ==
    LET hasPre == p <= Len(text) /\ text[p] = "-"
        pid    == identifier(text, p + 1, "pre")
        q      == IF hasPre THEN pid.end ELSE p
        pre    == IF hasPre THEN SubSeq(text, p + 1, q - 1) ELSE <<>>
        hasBld == q <= Len(text) /\ text[q] = "+"
        bid    == identifier(text, q + 1, "build")
        r      == IF hasBld THEN bid.end ELSE q
        build  == IF hasBld THEN SubSeq(text, q + 1, r - 1) ELSE <<>>
    IN  IF hasPre /\ (~pid.ok \/ pre = <<>>) THEN ParseError
        ELSE IF hasBld /\ (~bid.ok \/ build = <<>>) THEN ParseError
        ELSE IF r <= Len(text) THEN ParseError
        ELSE [ok |-> TRUE, major |-> major, minor |-> minor, patch |-> patch,
              pre |-> pre, build |-> build]

VersionParse(text) ==
    IF text = <<>> THEN ParseError
    ELSE
    LET ma == numeric_identifier(text, 1)
    IN  IF ~ma.ok \/ ma.next > Len(text) \/ text[ma.next] # "." THEN ParseError
        ELSE
        LET mi == numeric_identifier(text, ma.next + 1)
        IN  IF ~mi.ok \/ mi.next > Len(text) \/ text[mi.next] # "." THEN ParseError
            ELSE
            LET pa == numeric_identifier(text, mi.next + 1)
            IN  IF ~pa.ok THEN ParseError
                ELSE ParseTail(text, ma.val, mi.val, pa.val, pa.next)

(***************************************************************************)
(* VersionCompare::version_eq                                              *)
(***************************************************************************)
\* variant: a bare major version gets ".0" only
normalize_string_short(v) ==
    IF \A i \in 1..Len(v) : is_ascii_digit(v[i]) THEN v \o <<".", "0">>
    ELSE IF matches_count(v, ".") = 1 THEN v \o <<".", "0">>
    ELSE v

\* the string the normalize closure hands to Version::parse
normalize_string(v) ==
    IF \A i \in 1..Len(v) : is_ascii_digit(v[i]) THEN v \o <<".", "0", ".", "0">>
    ELSE IF matches_count(v, ".") = 1 THEN v \o <<".", "0">>
    ELSE v

normalize(v) == VersionParse(normalize_string(v))

\* variant: equality by semver precedence, build metadata left out
VersionPrecedenceEq(v1, v2) ==
    /\ v1.major = v2.major
    /\ v1.minor = v2.minor
    /\ v1.patch = v2.patch
    /\ v1.pre = v2.pre

\* Version's ==: derived, over major, minor, patch, pre and build
VersionPartialEq(v1, v2) ==
    /\ v1.major = v2.major
    /\ v1.minor = v2.minor
    /\ v1.patch = v2.patch
    /\ v1.pre = v2.pre
    /\ v1.build = v2.build

\* variant: the fallback compares the normalized strings
version_eq_normalized_fallback(s, o) ==
    LET n1 == normalize(s)
        n2 == normalize(o)
    IN  IF n1.ok /\ n2.ok THEN VersionPartialEq(n1, n2)
        ELSE normalize_string(s) = normalize_string(o)

\* variant: the fallback compares the normalized receiver with the raw argument
version_eq_onesided_fallback(s, o) ==
    LET n1 == normalize(s)
        n2 == normalize(o)
    IN  IF n1.ok /\ n2.ok THEN VersionPartialEq(n1, n2)
        ELSE normalize_string(s) = o

version_eq(s, o) ==
    LET n1 == normalize(s)
        n2 == normalize(o)
    IN  IF n1.ok /\ n2.ok THEN VersionPartialEq(n1, n2) ELSE s = o

(***************************************************************************)
(* Config                                                                  *)
(***************************************************************************)
\* SupportedTask
Gitversion == [kind |-> "Gitversion", name |-> <<>>]
Default(name) == [kind |-> "Default", name |-> name]

\* TaskValidState
ValidGitversion(state) == [kind |-> "Gitversion", state |-> state]
ValidDefault(version) == [kind |-> "Default", version |-> version]

\* GitVersionState
GitVersionState(setup, execute) == [setup_version |-> setup, execute_version |-> execute]

GitversionName == <<"g", "i", "t", "v", "e", "r", "s", "i", "o", "n">>

\* the injective sequences over the set S: the orders in which a HashMap
\* with key set S can be iterated
IterOrders(S) ==
    {o \in [1..Cardinality(S) -> S] : \A i, j \in 1..Cardinality(S) : o[i] = o[j] => i = j}

RECURSIVE collect(_)
\* HashMap from a sequence of (key, value) pairs, inserted in order: a later
\* pair with the same key replaces the earlier one
collect(pairs) ==
    IF pairs = <<>> THEN <<>>
    ELSE LET n    == Len(pairs)
             init == collect(SubSeq(pairs, 1, n - 1))
         IN  [k \in DOMAIN init \cup {pairs[n].key} |->
                 IF k = pairs[n].key THEN pairs[n].value ELSE init[k]]

\* variant: the keys are kept as written
normalize_task_names_verbatim(other_tasks, order) ==
    collect([i \in 1..Len(order) |-> [key |-> order[i], value |-> other_tasks[order[i]]]])

\* Config::normalize_task_names, with the map iterated in the given order
normalize_task_names(other_tasks, order) ==
    collect([i \in 1..Len(order) |->
                [key |-> to_lowercase(order[i]), value |-> other_tasks[order[i]]]])

\* Config::get_valid_states
get_valid_states(c, task) ==
    IF task.kind = "Gitversion"
    THEN [i \in 1..Len(c.gitversion) |-> ValidGitversion(c.gitversion[i])]
    ELSE IF task.name \in DOMAIN c.other_tasks
         THEN [i \in 1..Len(c.other_tasks[task.name]) |->
                  ValidDefault(c.other_tasks[task.name][i])]
         ELSE <<>>

\* variant: the special task is left out
get_all_tasks_generic_only(c, order) ==
    [i \in 1..Len(order) |-> Default(order[i])]

\* Config::get_all_tasks, with the map's keys iterated in the given order
get_all_tasks(c, order) ==
    <<Gitversion>> \o [i \in 1..Len(order) |-> Default(order[i])]

\* variant: the special task's versions are compared with version_eq
is_valid_version_normalizing(c, task, version) ==
    IF to_lowercase(task) = GitversionName
    THEN \E i \in 1..Len(c.gitversion) :
             \/ version_eq(version, c.gitversion[i].setup_version)
             \/ version_eq(version, c.gitversion[i].execute_version)
    ELSE /\ task \in DOMAIN c.other_tasks
         /\ \E i \in 1..Len(c.other_tasks[task]) : c.other_tasks[task][i] = version

\* Config::is_valid_version
is_valid_version(c, task, version) ==
    IF to_lowercase(task) = GitversionName
    THEN \E i \in 1..Len(c.gitversion) :
             \/ version = c.gitversion[i].setup_version
             \/ version = c.gitversion[i].execute_version
    ELSE /\ task \in DOMAIN c.other_tasks
         /\ \E i \in 1..Len(c.other_tasks[task]) : c.other_tasks[task][i] = version

(***************************************************************************)
(* Credentials                                                             *)
(***************************************************************************)
CredentialsOk(username, token) ==
    [ok |-> TRUE, err |-> "none", username |-> username, token |-> token]

CredentialsErr(err) ==
    [ok |-> FALSE, err |-> err, username |-> <<>>, token |-> <<>>]

\* Credentials::from_string
from_string(creds) ==
    LET parts == split(creds, ":")
    IN  IF Len(parts) # 2
        THEN CredentialsErr("Invalid credentials format")
        ELSE CredentialsOk(parts[1], parts[2])

\* dotenv(): every variable of the .env file that the environment does not
\* already hold is set; without a file nothing changes
dotenv(e, f) ==
    IF ~f.exists THEN e
    ELSE [AZURE_USERNAME |-> IF e.AZURE_USERNAME.some THEN e.AZURE_USERNAME
                             ELSE f.AZURE_USERNAME,
          AZURE_TOKEN    |-> IF e.AZURE_TOKEN.some THEN e.AZURE_TOKEN
                             ELSE f.AZURE_TOKEN]

\* the environment after Credentials::load
env_after_load(cli, e, f) ==
    IF cli.some THEN e
    ELSE IF e.AZURE_USERNAME.some /\ e.AZURE_TOKEN.some THEN e
    ELSE dotenv(e, f)

\* variant: the environment is consulted before the argument
load_env_first(cli, e, f) ==
    IF e.AZURE_USERNAME.some /\ e.AZURE_TOKEN.some
    THEN CredentialsOk(e.AZURE_USERNAME.val, e.AZURE_TOKEN.val)
    ELSE IF cli.some THEN from_string(cli.val)
    ELSE LET e2 == dotenv(e, f)
         IN  IF e2.AZURE_USERNAME.some /\ e2.AZURE_TOKEN.some
             THEN CredentialsOk(e2.AZURE_USERNAME.val, e2.AZURE_TOKEN.val)
             ELSE CredentialsErr("Credentials not found")

\* Credentials::load: what it returns
load(cli, e, f) ==
    IF cli.some THEN from_string(cli.val)
    ELSE IF e.AZURE_USERNAME.some /\ e.AZURE_TOKEN.some
    THEN CredentialsOk(e.AZURE_USERNAME.val, e.AZURE_TOKEN.val)
    ELSE LET e2 == dotenv(e, f)
         IN  IF e2.AZURE_USERNAME.some /\ e2.AZURE_TOKEN.some
             THEN CredentialsOk(e2.AZURE_USERNAME.val, e2.AZURE_TOKEN.val)
             ELSE CredentialsErr("Credentials not found")

(***************************************************************************)
(* Inputs of version_eq                                                    *)
(***************************************************************************)
MaxComps == 3

Comp == {<<"0">>, <<"1">>, <<"x">>}

RECURSIVE CoresOfLen(_)
CoresOfLen(n) ==
    IF n = 0 THEN {<<>>}
    ELSE IF n = 1 THEN Comp
    ELSE {c \o <<".">> \o d : c \in CoresOfLen(n - 1), d \in Comp}

Suffixes == {<<>>, <<"-", "a">>, <<"+", "a">>, <<"+", "b">>}

ExtraVersions ==
    { <<"0", "1">>,
      <<"0", "1", ".", "0", ".", "0">>,
      <<".", "0", ".", "0">>,
      <<"1", ".", "0", ".", "0", "-", "A">>,
      <<"1", ".", "0", ".", "0", "-", "a", "+", "b">>,
      <<"1", ".", "0", ".", "0", "-", "a", ".", "1">>,
      <<"1", ".", "0", ".", "0", "-", "0", "1">>,
      <<"1", ".", "0", ".", "0", "+", "0", "1">>,
      <<"1", ".", "0", ".", "0", "-">>,
      <<"1", ".", "0", ".", "0", "-", "a", "-", "a">>,
      <<"1", ".", "0", ".", "0", "+", "a", "+", "a">>,
      <<"1", "0">>,
      <<"1", "0", ".", "0", ".", "0">>,
      U64MaxDigits,
      U64MaxDigits \o <<".", "0", ".", "0">>,
      SubSeq(U64MaxDigits, 1, 19) \o <<"6">>,
      SubSeq(U64MaxDigits, 1, 19) \o <<"6", ".", "0", ".", "0">> }

VersionStrings ==
    {c \o s : c \in UNION {CoresOfLen(n) : n \in 0..MaxComps}, s \in Suffixes}
        \cup ExtraVersions

(***************************************************************************)
(* version_eq called on (self, other) and then on (other, self)            *)
(***************************************************************************)
IdleVersion ==
    /\ self = <<>>
    /\ other = <<>>
    /\ vpc = "idle"
    /\ r_so = FALSE
    /\ r_os = FALSE

IdleConfig ==
    /\ file = [state |-> "missing", gitversion |-> <<>>, other_tasks |-> <<>>]
    /\ config = [gitversion |-> <<>>, other_tasks |-> <<>>]
    /\ cpc = "idle"
    /\ call = [op |-> "none"]
    /\ ret = <<>>

IdleCredentials ==
    /\ cli_credentials = None
    /\ env = [AZURE_USERNAME |-> None, AZURE_TOKEN |-> None]
    /\ dotfile = [exists |-> FALSE, AZURE_USERNAME |-> None, AZURE_TOKEN |-> None]
    /\ kpc = "idle"
    /\ credentials = [ok |-> FALSE, err |-> "none", username |-> <<>>, token |-> <<>>]

InitVersion ==
    /\ IdleConfig
    /\ IdleCredentials
    /\ self \in VersionStrings
    /\ other \in VersionStrings
    /\ vpc = "start"
    /\ r_so = FALSE
    /\ r_os = FALSE

VersionEqCall ==
    /\ vpc = "start"
    /\ r_so' = version_eq(self, other)
    /\ vpc' = "called"
    /\ UNCHANGED <<self, other, r_os, cvars, kvars>>

VersionEqSwapped ==
    /\ vpc = "called"
    /\ r_os' = version_eq(other, self)
    /\ vpc' = "done"
    /\ UNCHANGED <<self, other, r_so, cvars, kvars>>

NextVersion == VersionEqCall \/ VersionEqSwapped

SpecVersion == InitVersion /\ [][NextVersion]_vars

(***************************************************************************)
(* Claims about version_eq                                                 *)
(***************************************************************************)
P_self == VersionParse(normalize_string(self))
P_other == VersionParse(normalize_string(other))

SameCore ==
    /\ P_self.major = P_other.major
    /\ P_self.minor = P_other.minor
    /\ P_self.patch = P_other.patch
    /\ P_self.pre = P_other.pre

\* C1 as stated: when both inputs parse, version_eq is true iff major, minor,
\* patch and prerelease match, build metadata being ignored.
C1_BuildIgnored ==
    (vpc # "start" /\ P_self.ok /\ P_other.ok) => (r_so <=> SameCore)

\* C1 amended: when both inputs parse, version_eq is true iff major, minor,
\* patch, prerelease and build metadata all match; a version with a
\* prerelease tag never equals the same version without it.
C1_FullEquality ==
    (vpc # "start" /\ P_self.ok /\ P_other.ok) =>
        /\ r_so <=> (SameCore /\ P_self.build = P_other.build)
        /\ (P_self.pre = <<>> /\ P_other.pre # <<>>) => ~r_so

\* C1 witness: two parsed versions that differ only in build metadata
C1_Witness ==
    /\ vpc = "done"
    /\ P_self.ok /\ P_other.ok
    /\ SameCore
    /\ P_self.build # P_other.build
    /\ ~r_so

\* C3: when normalization or parsing of either input fails, version_eq is
\* exact string equality of the original inputs.
C3_FallbackIsStringEquality ==
    (vpc # "start" /\ (~P_self.ok \/ ~P_other.ok)) => (r_so <=> self = other)

\* C3 witness: "1.x" against "1.x.0": neither parses, their normalized forms
\* coincide, the originals differ
C3_Witness ==
    /\ vpc = "done"
    /\ self = <<"1", ".", "x">>
    /\ other = <<"1", ".", "x", ".", "0">>
    /\ ~P_self.ok /\ ~P_other.ok
    /\ ~r_so

\* C4: version_eq(a, b) = version_eq(b, a) for every pair of strings.
C4_Symmetric == (vpc = "done") => (r_so <=> r_os)

\* C4 witness: a parseable and an unparseable input, compared both ways
C4_Witness ==
    /\ vpc = "done"
    /\ P_self.ok /\ ~P_other.ok
    /\ self # other
    /\ ~r_so /\ ~r_os

\* a non-empty string of ASCII digits without a leading zero
IsDigitString(d) ==
    /\ d # <<>>
    /\ \A i \in 1..Len(d) : d[i] \in Digits
    /\ Len(d) > 1 => d[1] # "0"

IsU64String(d) == IsDigitString(d) /\ ~Overflows(d)

IsDigitParts(s, n) ==
    LET p == split(s, ".")
    IN  Len(p) = n /\ \A k \in 1..n : IsDigitString(p[k])

IsU64Parts(s, n) ==
    LET p == split(s, ".")
    IN  Len(p) = n /\ \A k \in 1..n : IsU64String(p[k])

\* C5 as stated: for every digit string M without leading zero, M equals
\* M.0.0, and M.N equals M.N.0; three-component versions that differ in a
\* numeric component are not equal.
C5_ShortFormsAnyDigits ==
    (vpc # "start") =>
        /\ (IsDigitParts(self, 1) /\ other = self \o <<".", "0", ".", "0">>) => r_so
        /\ (IsDigitParts(self, 2) /\ other = self \o <<".", "0">>) => r_so
        /\ (IsDigitParts(self, 3) /\ IsDigitParts(other, 3) /\ self # other) => ~r_so

\* C5 amended: the same, for components that fit an unsigned 64-bit integer.
C5_ShortFormsU64 ==
    (vpc # "start") =>
        /\ (IsU64Parts(self, 1) /\ other = self \o <<".", "0", ".", "0">>) => r_so
        /\ (IsU64Parts(self, 2) /\ other = self \o <<".", "0">>) => r_so
        /\ (IsU64Parts(self, 3) /\ IsU64Parts(other, 3) /\ self # other) => ~r_so

\* C5 witness: "1" against "1.0.0"
C5_Witness ==
    /\ vpc = "done"
    /\ self = <<"1">>
    /\ other = <<"1", ".", "0", ".", "0">>
    /\ r_so

(***************************************************************************)
(* Configuration documents                                                 *)
(***************************************************************************)
MaxNameLen == 1
MaxEntries == 2

NameLetters == {"t", "T"}

RECURSIVE NamesOfLen(_)
NamesOfLen(n) ==
    IF n = 0 THEN {<<>>}
    ELSE {w \o <<c>> : w \in NamesOfLen(n - 1), c \in NameLetters}

\* keys of the document's other_tasks: short names in both cases, and the
\* special task's name
DocKeys == UNION {NamesOfLen(n) : n \in 1..MaxNameLen} \cup {GitversionName}

\* task names asked for: the same, and the special name in mixed case
TaskNames == DocKeys \cup {<<"G", "i", "t", "V", "e", "r", "s", "i", "o", "n">>}

V1 == <<"1">>
V100 == <<"1", ".", "0", ".", "0">>
V200 == <<"2", ".", "0", ".", "0">>

QueryVersions == {V1, V100}

VersionLists == {<<V1>>, <<V100, V200>>}

GitversionLists ==
    { <<>>,
      <<GitVersionState(V200, V200), GitVersionState(V100, V200)>> }

\* the other_tasks mapping of a document: entries in document order, with
\* distinct keys
OtherTasksDocs ==
    UNION { {d \in [1..n -> [key : DocKeys, value : VersionLists]] :
                \A i, j \in 1..n : d[i].key = d[j].key => i = j}
            : n \in 0..MaxEntries }

Files ==
    {[state |-> "missing", gitversion |-> <<>>, other_tasks |-> <<>>],
     [state |-> "malformed", gitversion |-> <<>>, other_tasks |-> <<>>]}
        \cup [state : {"ok"}, gitversion : GitversionLists, other_tasks : OtherTasksDocs]

(***************************************************************************)
(* Config::load, then any calls on the loaded Config                       *)
(***************************************************************************)
InitConfig ==
    /\ IdleVersion
    /\ IdleCredentials
    /\ file \in Files
    /\ config = [gitversion |-> <<>>, other_tasks |-> <<>>]
    /\ cpc = "start"
    /\ call = [op |-> "none"]
    /\ ret = <<>>

\* Config::load when the path does not exist
LoadNotFound ==
    /\ cpc = "start"
    /\ file.state = "missing"
    /\ cpc' = "failed"
    /\ call' = [op |-> "load"]
    /\ ret' = "Config file not found"
    /\ UNCHANGED <<file, config, vvars, kvars>>

\* Config::load when serde_yaml rejects the document
LoadParseError ==
    /\ cpc = "start"
    /\ file.state = "malformed"
    /\ cpc' = "failed"
    /\ call' = [op |-> "load"]
    /\ ret' = "Failed to parse config file"
    /\ UNCHANGED <<file, config, vvars, kvars>>

\* Config::load of a well-formed document: deserialize, then
\* normalize_task_names over the map in some iteration order
LoadOk ==
    /\ cpc = "start"
    /\ file.state = "ok"
    /\ LET parsed == collect(file.other_tasks)
       IN  \E order \in IterOrders(DOMAIN parsed) :
               config' = [gitversion |-> file.gitversion,
                          other_tasks |-> normalize_task_names(parsed, order)]
    /\ cpc' = "loaded"
    /\ call' = [op |-> "load"]
    /\ ret' = "Ok"
    /\ UNCHANGED <<file, vvars, kvars>>

\* variant: a lookup of an absent name inserts an empty entry for it
GetValidStatesInserting ==
    /\ cpc = "loaded"
    /\ \E task \in {Gitversion} \cup {Default(n) : n \in TaskNames} :
           /\ call' = [op |-> "get_valid_states", task |-> task]
           /\ ret' = get_valid_states(config, task)
           /\ config' =
                  IF task.kind = "Default" /\ task.name \notin DOMAIN config.other_tasks
                  THEN [config EXCEPT !.other_tasks =
                           [k \in DOMAIN config.other_tasks \cup {task.name} |->
                               IF k = task.name THEN <<>> ELSE config.other_tasks[k]]]
                  ELSE config
    /\ UNCHANGED <<file, cpc, vvars, kvars>>

GetValidStates ==
    /\ cpc = "loaded"
    /\ \E task \in {Gitversion} \cup {Default(n) : n \in TaskNames} :
           /\ call' = [op |-> "get_valid_states", task |-> task]
           /\ ret' = get_valid_states(config, task)
    /\ UNCHANGED <<file, config, cpc, vvars, kvars>>

GetAllTasks ==
    /\ cpc = "loaded"
    /\ \E order \in IterOrders(DOMAIN config.other_tasks) :
           /\ call' = [op |-> "get_all_tasks"]
           /\ ret' = get_all_tasks(config, order)
    /\ UNCHANGED <<file, config, cpc, vvars, kvars>>

IsValidVersion ==
    /\ cpc = "loaded"
    /\ \E task \in TaskNames, version \in QueryVersions :
           /\ call' = [op |-> "is_valid_version", task |-> task, version |-> version]
           /\ ret' = is_valid_version(config, task, version)
    /\ UNCHANGED <<file, config, cpc, vvars, kvars>>

NextConfig ==
    \/ LoadNotFound
    \/ LoadParseError
    \/ LoadOk
    \/ GetValidStates
    \/ GetAllTasks
    \/ IsValidVersion

SpecConfig == InitConfig /\ [][NextConfig]_vars

(***************************************************************************)
(* Claims about Config                                                     *)
(***************************************************************************)
DocKeysLowered ==
    {to_lowercase(file.other_tasks[i].key) : i \in 1..Len(file.other_tasks)}

\* the last entry of the document whose key lowercases to k
LastEntryFor(k) ==
    LET I == {i \in 1..Len(file.other_tasks) : to_lowercase(file.other_tasks[i].key) = k}
    IN  file.other_tasks[CHOOSE i \in I : \A j \in I : j <= i]

\* C2 as stated: load lowercases every generic key, and of two keys that
\* collide after lowercasing the one later in the document wins.
C2_LaterEntryWins ==
    (cpc = "loaded") =>
        /\ DOMAIN config.other_tasks = DocKeysLowered
        /\ \A k \in DOMAIN config.other_tasks :
               config.other_tasks[k] = LastEntryFor(k).value

\* C2 amended: load lowercases every generic key and never fails on a
\* collision; of the keys that collide after lowercasing exactly one entry
\* survives, holding the list of one of them (which one is not determined
\* by the document's order).
C2_OneCollidingEntrySurvives ==
    /\ (file.state = "ok" /\ cpc # "start") => cpc = "loaded"
    /\ (cpc = "loaded") =>
        /\ DOMAIN config.other_tasks = DocKeysLowered
        /\ \A k \in DOMAIN config.other_tasks :
               \E i \in 1..Len(file.other_tasks) :
                   /\ to_lowercase(file.other_tasks[i].key) = k
                   /\ config.other_tasks[k] = file.other_tasks[i].value

\* C2 witness: keys "T" then "t" with different lists, loaded into one entry
\* "t" that holds the first list
C2_Witness ==
    /\ cpc = "loaded"
    /\ file.other_tasks = <<[key |-> <<"T">>, value |-> <<V1>>],
                            [key |-> <<"t">>, value |-> <<V100, V200>>]>>
    /\ DOMAIN config.other_tasks = {<<"t">>}
    /\ config.other_tasks[<<"t">>] = <<V1>>

\* C7: for a task name that case-insensitively equals "gitversion",
\* is_valid_version is true iff the version is exactly the setup or execute
\* version of a stored special-task state; the generic mapping plays no part.
C7_GitversionExactMatch ==
    (cpc = "loaded" /\ call.op = "is_valid_version"
        /\ to_lowercase(call.task) = GitversionName) =>
        (ret <=> \E i \in 1..Len(config.gitversion) :
                     \/ call.version = config.gitversion[i].setup_version
                     \/ call.version = config.gitversion[i].execute_version)

\* C7 witness: "GitVersion" asked for "1", which no state lists although a
\* state lists "1.0.0" and the generic mapping lists "1" under "gitversion"
C7_Witness ==
    /\ cpc = "loaded"
    /\ call.op = "is_valid_version"
    /\ call.task = <<"G", "i", "t", "V", "e", "r", "s", "i", "o", "n">>
    /\ call.version = V1
    /\ config.gitversion = <<GitVersionState(V200, V200), GitVersionState(V100, V200)>>
    /\ GitversionName \in DOMAIN config.other_tasks
    /\ config.other_tasks[GitversionName] = <<V1>>
    /\ ret = FALSE

\* C8: two generic task names that differ only in letter case get the same
\* result from get_valid_states and from is_valid_version.
C8_CaseInsensitiveLookup ==
    (cpc = "loaded") =>
        /\ (call.op = "get_valid_states" /\ call.task.kind = "Default") =>
               \A n \in TaskNames :
                   to_lowercase(n) = to_lowercase(call.task.name) =>
                       ret = get_valid_states(config, Default(n))
        /\ (call.op = "is_valid_version" /\ to_lowercase(call.task) # GitversionName) =>
               \A n \in TaskNames :
                   to_lowercase(n) = to_lowercase(call.task) =>
                       ret = is_valid_version(config, n, call.version)

\* the number of positions of the sequence s that hold x
Occurrences(s, x) == Cardinality({i \in 1..Len(s) : s[i] = x})

\* C9: get_all_tasks returns 1 + (number of generic keys) tasks: the special
\* task exactly once and each generic key exactly once.
C9_AllTasks ==
    (cpc = "loaded" /\ call.op = "get_all_tasks") =>
        /\ Len(ret) = 1 + Cardinality(DOMAIN config.other_tasks)
        /\ Occurrences(ret, Gitversion) = 1
        /\ \A k \in DOMAIN config.other_tasks : Occurrences(ret, Default(k)) = 1

\* C9 witness: get_all_tasks on a store whose generic mapping has the key
\* "gitversion" and one more
C9_Witness ==
    /\ cpc = "loaded"
    /\ call.op = "get_all_tasks"
    /\ DOMAIN config.other_tasks = {GitversionName, <<"t">>}
    /\ Len(ret) = 3

\* C10: after load the Config never changes, whatever is called on it; its
\* generic keys are lowercase; get_valid_states of an absent generic name is
\* the empty sequence.
C10_ReadOnlyAfterLoad ==
    /\ [][(cpc = "loaded") => (config' = config /\ cpc' = "loaded")]_vars
    /\ []((cpc = "loaded") =>
            /\ \A k \in DOMAIN config.other_tasks : k = to_lowercase(k)
            /\ (call.op = "get_valid_states" /\ call.task.kind = "Default"
                    /\ call.task.name \notin DOMAIN config.other_tasks) => ret = <<>>)

\* C10 witness: get_valid_states of a generic name the store does not hold
C10_Witness ==
    /\ cpc = "loaded"
    /\ call.op = "get_valid_states"
    /\ call.task = Default(<<"T">>)
    /\ DOMAIN config.other_tasks = {<<"t">>}
    /\ ret = <<>>

(***************************************************************************)
(* Credentials::load                                                       *)
(***************************************************************************)
MaxCredLen == 5

CredLetters == {"u", "t", ":"}

RECURSIVE CredStringsOfLen(_)
CredStringsOfLen(n) ==
    IF n = 0 THEN {<<>>}
    ELSE {w \o <<c>> : w \in CredStringsOfLen(n - 1), c \in CredLetters}

CliArguments ==
    {None} \cup {Some(s) : s \in UNION {CredStringsOfLen(n) : n \in 0..MaxCredLen}}

EnvUsernames == {None, Some(<<"e", "u">>)}
EnvTokens == {None, Some(<<"e", "t">>)}
DotUsernames == {None, Some(<<"d", "u">>)}
DotTokens == {None, Some(<<"d", "t">>)}

Dotfiles ==
    {[exists |-> FALSE, AZURE_USERNAME |-> None, AZURE_TOKEN |-> None]}
        \cup [exists : {TRUE}, AZURE_USERNAME : DotUsernames, AZURE_TOKEN : DotTokens]

InitCredentials ==
    /\ IdleVersion
    /\ IdleConfig
    /\ cli_credentials \in CliArguments
    /\ env \in [AZURE_USERNAME : EnvUsernames, AZURE_TOKEN : EnvTokens]
    /\ dotfile \in Dotfiles
    /\ kpc = "start"
    /\ credentials = CredentialsErr("none")

CredentialsLoad ==
    /\ kpc = "start"
    /\ credentials' = load(cli_credentials, env, dotfile)
    /\ env' = env_after_load(cli_credentials, env, dotfile)
    /\ kpc' = "done"
    /\ UNCHANGED <<cli_credentials, dotfile, vvars, cvars>>

NextCredentials == CredentialsLoad

SpecCredentials == InitCredentials /\ [][NextCredentials]_vars

(***************************************************************************)
(* Claims about Credentials                                                *)
(***************************************************************************)
Colons(s) == {i \in 1..Len(s) : s[i] = ":"}

\* C6: the sources are tried in the order argument, environment, .env file.
\* A supplied CLI argument decides the outcome alone: with exactly one ':'
\* its two sides are the username and the token, whatever the environment
\* and the .env file hold; otherwise load fails with the format error and
\* never falls through to them.  Without an argument the environment's
\* values win over the .env file's, and load fails only when both leave a
\* variable unset.
C6_ArgumentDecides ==
    /\ (kpc = "done" /\ cli_credentials.some) =>
        LET s == cli_credentials.val
        IN  IF Cardinality(Colons(s)) = 1
            THEN LET i == CHOOSE j \in Colons(s) : TRUE
                 IN  /\ credentials.ok
                     /\ credentials.username = SubSeq(s, 1, i - 1)
                     /\ credentials.token = SubSeq(s, i + 1, Len(s))
            ELSE /\ ~credentials.ok
                 /\ credentials.err = "Invalid credentials format"
    /\ (kpc = "done" /\ ~cli_credentials.some) =>
        IF env.AZURE_USERNAME.some /\ env.AZURE_TOKEN.some
        THEN /\ credentials.ok
             /\ credentials.username = env.AZURE_USERNAME.val
             /\ credentials.token = env.AZURE_TOKEN.val
        ELSE /\ ~credentials.ok
             /\ credentials.err = "Credentials not found"

\* C6 witness: "u:t:u" given while the environment holds both variables
C6_Witness ==
    /\ kpc = "done"
    /\ cli_credentials = Some(<<"u", ":", "t", ":", "u">>)
    /\ env.AZURE_USERNAME.some /\ env.AZURE_TOKEN.some
    /\ credentials.err = "Invalid credentials format"

====
